---------------------------- MODULE Spec2Model ----------------------------
(***************************************************************************)
(* Model of the knowledge-base engine of apps/issue-3:                     *)
(*   - the ingestion orchestrator (core/processor.py) together with the    *)
(*     file scanner (utils/file_scanner.py) and the vector store           *)
(*     (indexer/vector_store.py): specification Spec follows one call of   *)
(*     process_folders step by step through the worker pool, and           *)
(*     specification RunsSpec takes each call as one step between edits    *)
(*     of the file tree;                                                   *)
(*   - the conversation store (rag/conversation.py), specification         *)
(*     ConvSpec;                                                           *)
(*   - the conversation manager and the RAG engine (rag/conversation.py,   *)
(*     rag/engine.py), specification RagSpec;                              *)
(*   - the source verifier, the exporter and the importer (migration/),    *)
(*     specification MigSpec;                                              *)
(*   - the graph builder (graph/builder.py), specification GraphSpec, and  *)
(*     the sub-graph views of the visualizer (graph/visualizer.py),        *)
(*     specification ViewSpec;                                             *)
(*   - the chunker (core/chunker.py), specification ChunkSpec;             *)
(*   - the retrieval step of the query processor (rag/query_processor.py), *)
(*     specification ScoreSpec.                                            *)
(***************************************************************************)
EXTENDS Integers, Sequences, FiniteSets, TLC

(***************************************************************************)
(* Bounds of the model.                                                    *)
(***************************************************************************)
MaxOps == 3         \* process_folders calls and edits in a behaviour of RunsSpec
MaxPoolRuns == 1    \* process_folders calls in one behaviour of Spec
MaxMsgs == 4        \* messages appended to the conversation log
MaxBudget == 5      \* largest max_tokens passed to get_messages
MaxRagOps == 3      \* calls of the RAG engine and the conversation manager
MaxSeconds == 2     \* seconds that pass during a behaviour of RagSpec
MaxMigOps == 4      \* verify, export and import calls and folder edits
NumGraphDocs == 4   \* documents given to build_graph
MaxGraphEdits == 3  \* wikilinks, tags and embeddings added to them
MaxEdgesPerNode == 2 \* largest max_edges_per_node of a GraphBuilder
MaxViewOps == 2     \* filter_by_tags and expand_from_node calls on one graph
MaxHops == 2        \* largest max_hops passed to expand_from_node
MaxSentences == 3   \* sentences of a text given to chunk_text
MaxSentenceChars == 6 \* characters of a sentence besides its code block marker
MaxChunkSize == 4   \* largest chunk_size of a DocumentChunker
MaxChunkOverlap == 1 \* largest chunk_overlap of a DocumentChunker
MaxRows == 3        \* rows the vector index returns for one query
MaxDistance == 24   \* largest distance of a row, in tenths

\* DocumentProcessor(max_workers=...): size of the worker pool
max_workers == 2

(***************************************************************************)
(* The file tree.  Two root folders; two notes share the stem "doc1".      *)
(***************************************************************************)
Roots == {"A", "B"}
Paths == {"A/doc1.md", "A/doc2.md", "B/doc1.md"}

\* Path(p).parent of a note
Root(p) == IF p = "B/doc1.md" THEN "B" ELSE "A"

\* Path(p).stem
Stem(p) == IF p = "A/doc2.md" THEN "doc2" ELSE "doc1"

Absent == "absent"
NoEntry == <<>>
None == "none"
NoRow == [empty |-> TRUE]
NoDoc == [doc_id |-> "none"]

\* File contents: "short" is one plain sentence, "long" is a longer text
\* that holds the wikilink [[doc2]].
Contents == {"short", "long"}

\* _compute_file_hash: SHA-256 of the bytes, one digest per content
Hash(c) == <<"sha256", c>>

\* ObsidianParser._extract_wikilinks: one dict per [[...]] match
ParsedWikilinks(c) ==
    IF c = "long"
    THEN {[target |-> "doc2", header |-> None, display |-> None,
           type |-> "wikilink"]}
    ELSE {}

\* DocumentChunker.chunk_text: number of chunks of the plain text
NumChunks(c) == IF c = "long" THEN 2 ELSE 1

\* the text of chunk i of content c
ChunkText(c, i) == <<c, i>>

MaxChunks == 2
ChunkIds == {<<s, i>> : s \in {Stem(p) : p \in Paths}, i \in 0..(MaxChunks - 1)}

(***************************************************************************)
(* State.                                                                  *)
(***************************************************************************)
VARIABLES
    disk,            \* file system: content of each path, or Absent
    folderExists,    \* file system: whether each root directory exists
    file_cache,      \* FileScanner._file_cache: path -> hash
    documents,       \* DocumentProcessor.documents: path -> Document
    vector_store,    \* VectorStore rows: chunk id -> row
    pc,              \* position of process_folders
    run,             \* arguments of the current (or last) process_folders
    md_changes,      \* md_changes of the current (or last) run, per folder
    stats,           \* ProcessingStats of the current (or last) run
    futures,         \* future_to_change: path -> state of its task
    collected,       \* futures already yielded by as_completed
    completed,       \* local counter of the collecting loop
    progress_calls,  \* calls received by progress_callback, in order
    raised,          \* whether process_folders propagated an exception
    runs,            \* number of process_folders calls so far
    edits,           \* number of file-system edits so far
    seen,            \* history: paths listed by the scans of earlier runs
    scanned,         \* history: paths listed by the scan of this run
    baseline,        \* history: the folder this run scanned, if it is a
                     \*   non-forced run over one existing folder
    prevBaseline,    \* history: baseline of the run before this one
    messages,        \* Conversation.messages
    turn_count,      \* Conversation.turn_count
    appended,        \* history: number of add_message calls so far
    returned,        \* the last get_messages call: its argument and result
    conversations,   \* ConversationManager.conversations: id -> Conversation
    storage_dir,     \* whether the manager has a storage directory
    conv_files,      \* the files <session_id>.json of the storage directory
    rag_stats,       \* RAGEngine.stats
    rag_result,      \* history: the last RAGEngine.query call and its result
    last_turn,       \* history: turn_count last returned per conversation id
    got,             \* history: the last get_conversation call and its result
    rag_ops,         \* history: number of engine and manager calls so far
    clock,           \* the current second of datetime.now()
    generated,       \* history: the conversation ids the engine generated
    src_exists,      \* file system: whether each source folder exists
    kb_docs,         \* the Document objects of the knowledge base
    last_verify,     \* history: the last verify_sources call
    snapshot,        \* the export directory written by export_all
    imported,        \* history: the last import and the documents it built
    mig_ops,         \* history: number of migration calls and folder edits
    relationships,   \* graph input: the wikilinks of the documents
    tags,            \* graph input: metadata.tags of each document
    embeddings,      \* graph input: the embedding of each document, if any
    graph,           \* the DocumentGraph of the last build_graph call
    graph_edits,     \* history: number of edits of the graph input
    view,            \* history: the last sub-graph a GraphVisualizer returned
    view_ops,        \* history: number of sub-graph calls so far
    sentences,       \* chunker input: the sentences of the working text
    chunked,         \* the chunk list of the last chunk_text call
    rows,            \* the distances of the rows the vector index returns
    retrieved        \* history: the last _retrieve_chunks call and its result

fsVars == <<disk, folderExists, edits>>
runVars == <<file_cache, documents, vector_store, pc, run, md_changes, stats,
             futures, collected, completed, progress_calls, raised, runs,
             seen, scanned, baseline, prevBaseline>>
convVars == <<messages, turn_count, appended, returned>>
ragVars == <<conversations, storage_dir, conv_files, rag_stats, rag_result,
             last_turn, got, rag_ops, clock, generated>>
migVars == <<src_exists, kb_docs, last_verify, snapshot, imported, mig_ops>>
graphVars == <<relationships, tags, embeddings, graph, graph_edits>>
viewVars == <<view, view_ops>>
chunkVars == <<sentences, chunked>>
scoreVars == <<rows, retrieved>>
extVars == <<ragVars, migVars, graphVars, viewVars, chunkVars, scoreVars>>
otherVars == <<convVars, extVars>>
vars == <<fsVars, runVars, convVars, extVars>>

(***************************************************************************)
(* FileScanner                                                             *)
(***************************************************************************)
\* scan_directory(directory, recursive=True): the files under the root
scan_directory(d, folder) ==
    {[path |-> p, hash |-> Hash(d[p])] :
        p \in {q \in Paths : Root(q) = folder /\ d[q] # Absent}}

\* the set difference that yields deleted_paths in detect_changes
DeletedPaths(cached_paths, current_paths) == cached_paths \ current_paths

\* a detect_changes that reports every cached file as modified
ChangeKindAlwaysModified(cache, d, p) ==
    IF cache[p] = NoEntry THEN "new" ELSE "modified"

\* the branch "Check current files" of detect_changes for one listed file
ChangeKind(cache, d, p) ==
    IF cache[p] = NoEntry THEN "new"
    ELSE IF Hash(d[p]) # cache[p] THEN "modified"
    ELSE "unchanged"

\* detect_changes(directory): the changes and the updated cache
detect_changes(cache, d, folder) ==
    LET current_files == scan_directory(d, folder)
        current_paths == {f.path : f \in current_files}
        cached_paths == {p \in Paths : cache[p] # NoEntry}
        deleted_paths == DeletedPaths(cached_paths, current_paths)
        kind(p) == ChangeKind(cache, d, p)
    IN  [changes |->
            {[path |-> p, change_type |-> "deleted"] : p \in deleted_paths}
            \cup {[path |-> p, change_type |-> kind(p)] : p \in current_paths},
         cache |->
            [p \in Paths |->
                IF p \in deleted_paths THEN NoEntry
                ELSE IF p \in current_paths /\ kind(p) # "unchanged"
                     THEN Hash(d[p])
                ELSE cache[p]]]

(***************************************************************************)
(* DocumentProcessor                                                       *)
(***************************************************************************)
\* the scanning loop of process_folders over the folder list, from index i
RECURSIVE ScanFolders(_, _, _, _, _, _, _)
ScanFolders(i, folders, force, cache, d, exists, acc) ==
    IF i > Len(folders) THEN [changes |-> acc, cache |-> cache]
    ELSE IF ~exists[folders[i]]
         THEN ScanFolders(i + 1, folders, force, cache, d, exists, acc)
    ELSE IF force
         THEN ScanFolders(i + 1, folders, force, cache, d, exists,
                Append(acc, {[path |-> f.path, change_type |-> "new"] :
                                f \in scan_directory(d, folders[i])}))
    ELSE LET r == detect_changes(cache, d, folders[i])
         IN  ScanFolders(i + 1, folders, force, r.cache, d, exists,
                         Append(acc, r.changes))

\* len([c for c in md_changes if c.change_type == kind])
RECURSIVE CountFrom(_, _, _)
CountFrom(i, changes, kind) ==
    IF i > Len(changes) THEN 0
    ELSE Cardinality({c \in changes[i] : c.change_type = kind})
         + CountFrom(i + 1, changes, kind)

CountKind(changes, kind) == CountFrom(1, changes, kind)

\* the paths of the changes of one of the given kinds
PathsOfKind(changes, kinds) ==
    {c.path : c \in {x \in UNION {changes[i] : i \in 1..Len(changes)} :
                        x.change_type \in kinds}}

\* chunk_id=f"{path.stem}_{i}"
ChunkId(p, i) == <<Stem(p), i>>

\* the chunks _process_document builds for path p with content c
MakeChunks(p, c) ==
    [k \in 1..NumChunks(c) |->
        [chunk_id |-> ChunkId(p, k - 1),
         document_id |-> p,
         content |-> ChunkText(c, k - 1),
         metadata |-> [chunk_index |-> k - 1, source_file |-> p,
                       total_chunks |-> NumChunks(c)]]]

\* the Document _process_document returns
MakeDocument(p, c) ==
    [doc_id |-> p, raw_content |-> c, chunks |-> MakeChunks(p, c),
     relationships |-> <<>>, status |-> "active"]

\* VectorStore.add: one row per id, an existing row is overwritten
StoreAdd(store, chunks) ==
    [id \in ChunkIds |->
        IF \E k \in 1..Len(chunks) : chunks[k].chunk_id = id
        THEN LET k == CHOOSE j \in 1..Len(chunks) : chunks[j].chunk_id = id
             IN  [document |-> chunks[k].content,
                  metadata |-> chunks[k].metadata]
        ELSE store[id]]

\* VectorStore.delete
StoreDelete(store, ids) ==
    [id \in ChunkIds |-> IF id \in ids THEN NoRow ELSE store[id]]

ChunkIdsOf(doc) == {doc.chunks[k].chunk_id : k \in 1..Len(doc.chunks)}

\* _delete_document(file_path) applied to the registry and the store
DeleteDocument(st, p) ==
    IF st.documents[p] # NoDoc
    THEN [documents |-> [st.documents EXCEPT ![p] = NoDoc],
          vector_store |-> StoreDelete(st.vector_store,
                                       ChunkIdsOf(st.documents[p]))]
    ELSE st

\* the loop "Process deletions first" over the deleted paths
RECURSIVE DeleteAll(_, _)
DeleteAll(st, ps) ==
    IF ps = {} THEN st
    ELSE LET p == CHOOSE q \in ps : TRUE
         IN  DeleteAll(DeleteDocument(st, p), ps \ {p})

EmptyStats ==
    [total_files |-> 0, new_files |-> 0, modified_files |-> 0,
     deleted_files |-> 0, unchanged_files |-> 0, errors |-> 0,
     relationships_built |-> 0, error_details |-> <<>>]

NoFuture == [state |-> "none", result |-> NoDoc, error |-> ""]

\* process_folders from its entry to the submission of the tasks:
\* scan, statistics, deletions, to_process
Begin(folders, force) ==
    LET sc == CHOOSE x \in {ScanFolders(1, folders, force, file_cache, disk,
                                        folderExists, <<>>)} : TRUE
        st == DeleteAll([documents |-> documents,
                         vector_store |-> vector_store],
                        PathsOfKind(sc.changes, {"deleted"}))
    IN  [file_cache |-> sc.cache,
         md_changes |-> sc.changes,
         stats |-> [EmptyStats EXCEPT
             !.total_files = CountKind(sc.changes, "new")
                             + CountKind(sc.changes, "modified")
                             + CountKind(sc.changes, "deleted")
                             + CountKind(sc.changes, "unchanged"),
             !.new_files = CountKind(sc.changes, "new"),
             !.modified_files = CountKind(sc.changes, "modified"),
             !.deleted_files = CountKind(sc.changes, "deleted"),
             !.unchanged_files = CountKind(sc.changes, "unchanged")],
         documents |-> st.documents,
         vector_store |-> st.vector_store,
         to_process |-> PathsOfKind(sc.changes, {"new", "modified"})]

\* the future of _process_document(p) on content c once it has finished:
\* the Document, or the exception of a failed step (read, parse, embed, add)
TaskOutcome(p, c, ok) ==
    IF ok THEN [state |-> "done", result |-> MakeDocument(p, c), error |-> ""]
    ELSE [state |-> "failed", result |-> NoDoc, error |-> "port_error"]

\* the write of a finished task to the vector store ("if chunks: add")
TaskWrite(store, fut) ==
    IF fut.state = "done" THEN StoreAdd(store, fut.result.chunks) ELSE store

\* as_completed yields a future once its task has finished
Collectable(f) == f.state \in {"done", "failed"}

\* a collecting loop that forgets to count
NextCompletedStuck(n) == n

\* "completed += 1" of the collecting loop
NextCompleted(n) == n + 1

\* an except branch that lets the exception of the task escape
OnTaskErrorReraise(st, p, e) == [stats |-> st, raised |-> TRUE]

\* the except branch of the collecting loop
OnTaskError(st, p, e) ==
    [stats |-> [st EXCEPT !.errors = @ + 1,
                          !.error_details =
                              Append(@, [path |-> p, error |-> e])],
     raised |-> FALSE]

\* one iteration of "for future in as_completed(future_to_change)" on the
\* collector's state cs, for the future fut of path p
CollectStep(cs, p, fut, total, callback) ==
    LET n == NextCompleted(cs.completed)
        calls == IF callback
                 THEN Append(cs.progress_calls,
                             [completed |-> n, total |-> total, path |-> p,
                              thread |-> "collector"])
                 ELSE cs.progress_calls
    IN  IF fut.state = "done"
        THEN [cs EXCEPT !.completed = n, !.progress_calls = calls,
                        !.documents = [@ EXCEPT ![p] = fut.result]]
        ELSE LET e == OnTaskError(cs.stats, p, fut.error)
             IN  [cs EXCEPT !.completed = n, !.progress_calls = calls,
                            !.stats = e.stats, !.raised = e.raised]

\* _build_relationships on the first document of the registry: a parsed
\* wikilink is a dict, so "link.split('|')" raises AttributeError; without
\* wikilinks the loop reaches "doc.embedding", which Document does not have
\* and which raises AttributeError too.  Nothing is assigned before either.
BuildRelationshipsRaises(docs) ==
    \E p \in Paths :
        /\ docs[p] # NoDoc
        /\ \/ ParsedWikilinks(docs[p].raw_content) # {}
           \/ "embedding" \notin DOMAIN docs[p]

\* sum(len(doc.relationships) for doc in self.documents.values())
RECURSIVE RelationshipsBuilt(_, _)
RelationshipsBuilt(docs, ps) ==
    IF ps = {} THEN 0
    ELSE LET p == CHOOSE q \in ps : TRUE
         IN  (IF docs[p] # NoDoc THEN Len(docs[p].relationships) ELSE 0)
             + RelationshipsBuilt(docs, ps \ {p})

\* "Build relationships between documents": the try block after the pool
BuildEffect(docs, st) ==
    IF BuildRelationshipsRaises(docs) THEN st
    ELSE [st EXCEPT !.relationships_built = RelationshipsBuilt(docs, Paths)]

\* the lists of root folders process_folders is called with
FolderLists ==
    {s \in UNION {[1..n -> Roots] : n \in 1..Cardinality(Roots)} :
        \A i, j \in DOMAIN s : i # j => s[i] # s[j]}

\* the orders in which the tasks of a batch can finish
Perms(S) ==
    {s \in [1..Cardinality(S) -> S] :
        \A i, j \in DOMAIN s : i # j => s[i] # s[j]}

NoBaseline == [folder |-> "none", files |-> [p \in Paths |-> Absent]]

\* the paths the scans of a run list
ScannedBy(folders) ==
    {p \in Paths : /\ disk[p] # Absent
                   /\ folderExists[Root(p)]
                   /\ \E i \in DOMAIN folders : folders[i] = Root(p)}

BaselineOf(folders, force) ==
    IF ~force /\ Len(folders) = 1 /\ folderExists[folders[1]]
    THEN [folder |-> folders[1],
          files |-> [p \in Paths |->
                        IF Root(p) = folders[1] THEN disk[p] ELSE Absent]]
    ELSE NoBaseline

(***************************************************************************)
(* Values of the conversation manager and the RAG engine                   *)
(***************************************************************************)
\* f"rag_{datetime.now().strftime('%Y%m%d_%H%M%S')}" in second now
GeneratedId(now) ==
    IF now = 1 THEN "rag_t1" ELSE IF now = 2 THEN "rag_t2" ELSE "rag_t3"

\* conversation ids: one chosen by the caller, and those generated by the
\* engine ("rag_" followed by the current second)
SessionIds == {"s1"} \cup {GeneratedId(now) : now \in 1..MaxSeconds}
NoId == "no_id"
NoConv == [session_id |-> "none"]
NoFile == [session_id |-> "no_file"]
NoTurn == -1

\* RAGStats()
EmptyRagStats ==
    [total_queries |-> 0, successful_queries |-> 0, failed_queries |-> 0]

NoRagResult ==
    [called |-> FALSE, conversation_id |-> NoId, raised |-> FALSE,
     previous_turn |-> NoTurn, stats_before |-> EmptyRagStats,
     session_id |-> NoId, generated_before |-> {},
     conversations_before |-> <<>>, conversations_after |-> <<>>,
     files_before |-> <<>>, files_after |-> <<>>,
     result |-> [conversation_id |-> NoId, turn_count |-> 0,
                 has_local_data |-> FALSE, error |-> "none",
                 content |-> <<>>]]

NoGot == [called |-> FALSE, session_id |-> NoId, missed |-> FALSE,
          saved |-> NoFile, conv |-> NoConv]

(***************************************************************************)
(* Values of the migration tools                                           *)
(***************************************************************************)
\* source folders, one nested in another, and one document in each
SourceFolders == {"v", "v/sub", "w"}
DocIds == {"a", "b", "c"}
FilePath(d) == IF d = "a" THEN "v/a.md" ELSE IF d = "b" THEN "v/sub/b.md"
               ELSE "w/c.md"

\* file_path.stem
FileStem(d) == d

\* the folder that holds the file of document d
ParentFolder(d) == IF d = "a" THEN "v" ELSE IF d = "b" THEN "v/sub" ELSE "w"

\* the folder a nested folder lies in
Outer(f) == IF f = "v/sub" THEN "v" ELSE f

NoSource == ""

\* the documents of the knowledge base, as ingestion built them while
\* their files existed
InitialDocs ==
    [d \in DocIds |->
        [doc_id |-> d,
         file_path |-> FilePath(d),
         metadata |-> [title |-> IF d = "b" THEN "Title" ELSE FileStem(d),
                       created_date |-> IF d = "c" THEN None ELSE "2024-01-01"],
         chunks |-> <<[chunk_id |-> <<d, 0>>, content |-> <<d, "text">>]>>,
         relationships |->
            IF d = "a"
            THEN <<[source_doc_id |-> "a", target_doc_id |-> "b",
                    relationship_type |-> "wikilink", strength |-> 1]>>
            ELSE <<>>,
         status |-> "active"]]

NoVerify ==
    [called |-> FALSE, folders |-> <<>>,
     exists |-> [f \in SourceFolders |-> TRUE],
     doc_source |-> [d \in DocIds |-> NoSource],
     document_count |-> [f \in SourceFolders |-> 0]]

NoDir == "no_dir"

NoSnapshot == [made |-> FALSE]

\* documents of the graph builder, in list order
GraphDocs == 1..NumGraphDocs
NoGraph == [built |-> FALSE]
NoView == [called |-> FALSE]
NoChunks == [done |-> FALSE]
NoRetrieval == [called |-> FALSE]
NoImport == [done |-> FALSE, returned |-> FALSE]

Init ==
    /\ disk \in [Paths -> Contents \cup {Absent}]
    /\ folderExists = [r \in Roots |-> TRUE]
    /\ file_cache = [p \in Paths |-> NoEntry]
    /\ documents = [p \in Paths |-> NoDoc]
    /\ vector_store = [id \in ChunkIds |-> NoRow]
    /\ pc = "idle"
    /\ run = [folders |-> <<>>, force |-> FALSE]
    /\ md_changes = <<>>
    /\ stats = EmptyStats
    /\ futures = [p \in Paths |-> NoFuture]
    /\ collected = {}
    /\ completed = 0
    /\ progress_calls = <<>>
    /\ raised = FALSE
    /\ runs = 0
    /\ edits = 0
    /\ seen = {}
    /\ scanned = {}
    /\ baseline = NoBaseline
    /\ prevBaseline = NoBaseline
    /\ messages = <<>>
    /\ turn_count = 0
    /\ appended = 0
    /\ returned = [called |-> FALSE, max_tokens |-> 0, result |-> <<>>]
    /\ conversations = [id \in SessionIds |-> NoConv]
    /\ storage_dir = TRUE
    /\ conv_files = [id \in SessionIds |-> NoFile]
    /\ rag_stats = EmptyRagStats
    /\ rag_result = NoRagResult
    /\ last_turn = [id \in SessionIds |-> NoTurn]
    /\ got = NoGot
    /\ rag_ops = 0
    /\ clock = 1
    /\ generated = {}
    /\ src_exists = [f \in SourceFolders |-> TRUE]
    /\ kb_docs = InitialDocs
    /\ last_verify = NoVerify
    /\ snapshot = NoSnapshot
    /\ imported = NoImport
    /\ mig_ops = 0
    /\ relationships = {}
    /\ tags = [d \in GraphDocs |-> {}]
    /\ embeddings = [d \in GraphDocs |-> None]
    /\ graph = NoGraph
    /\ graph_edits = 0
    /\ view = NoView
    /\ view_ops = 0
    /\ sentences = <<>>
    /\ chunked = NoChunks
    /\ rows = <<>>
    /\ retrieved = NoRetrieval

\* the caller drops the result of the last run before the files change
DropResult ==
    /\ pc' = "idle"
    /\ run' = [folders |-> <<>>, force |-> FALSE]
    /\ md_changes' = <<>>
    /\ stats' = EmptyStats
    /\ futures' = [p \in Paths |-> NoFuture]
    /\ collected' = {}
    /\ completed' = 0
    /\ progress_calls' = <<>>
    /\ raised' = FALSE
    /\ prevBaseline' = NoBaseline
    /\ UNCHANGED <<file_cache, documents, vector_store, runs, seen, scanned,
                   baseline>>

\* the user writes a file (creating its folder when needed)
WriteFile(p, c) ==
    /\ pc \in {"idle", "done"}
    /\ runs + edits < MaxOps
    /\ disk[p] # c
    /\ disk' = [disk EXCEPT ![p] = c]
    /\ folderExists' = [folderExists EXCEPT ![Root(p)] = TRUE]
    /\ edits' = edits + 1
    /\ DropResult
    /\ UNCHANGED otherVars

\* the user removes a file
RemoveFile(p) ==
    /\ pc \in {"idle", "done"}
    /\ runs + edits < MaxOps
    /\ disk[p] # Absent
    /\ disk' = [disk EXCEPT ![p] = Absent]
    /\ edits' = edits + 1
    /\ DropResult
    /\ UNCHANGED <<folderExists, otherVars>>

\* the user removes a root folder with everything in it
RemoveFolder(r) ==
    /\ pc \in {"idle", "done"}
    /\ runs + edits < MaxOps
    /\ folderExists[r]
    /\ folderExists' = [folderExists EXCEPT ![r] = FALSE]
    /\ disk' = [p \in Paths |-> IF Root(p) = r THEN Absent ELSE disk[p]]
    /\ edits' = edits + 1
    /\ DropResult
    /\ UNCHANGED otherVars

\* what every call of process_folders records at its entry
Enter(folders, force) ==
    /\ run' = [folders |-> folders, force |-> force]
    /\ runs' = runs + 1
    /\ seen' = seen \cup scanned
    /\ scanned' = ScannedBy(folders)
    /\ prevBaseline' = baseline
    /\ baseline' = BaselineOf(folders, force)
    /\ UNCHANGED <<fsVars, otherVars>>

(***************************************************************************)
(* process_folders step by step: the pool and the collecting loop          *)
(***************************************************************************)
StartRun(folders, force) ==
    /\ pc \in {"idle", "done"}
    /\ runs < MaxPoolRuns
    /\ \E b \in {Begin(folders, force)} :
           /\ file_cache' = b.file_cache
           /\ md_changes' = b.md_changes
           /\ stats' = b.stats
           /\ documents' = b.documents
           /\ vector_store' = b.vector_store
           /\ futures' = [p \in Paths |->
                  IF p \in b.to_process
                  THEN [NoFuture EXCEPT !.state = "queued"] ELSE NoFuture]
           /\ pc' = IF b.to_process = {} THEN "done" ELSE "collecting"
    /\ collected' = {}
    /\ completed' = 0
    /\ progress_calls' = <<>>
    /\ raised' = FALSE
    /\ Enter(folders, force)

Submitted == {p \in Paths : futures[p].state # "none"}
Running == {p \in Paths : futures[p].state = "running"}

\* a worker of the pool picks up the task _process_document(p)
TaskStart(p) ==
    /\ pc = "collecting"
    /\ futures[p].state = "queued"
    /\ Cardinality(Running) < max_workers
    /\ futures' = [futures EXCEPT ![p].state = "running"]
    /\ UNCHANGED <<fsVars, otherVars, file_cache, documents, vector_store,
                   pc, run, md_changes, stats, collected, completed,
                   progress_calls, raised, runs, seen, scanned, baseline,
                   prevBaseline>>

\* _process_document(p) runs to its end: it raises, or it adds its chunks
\* to the vector store and returns the Document
TaskFinish(p, ok) ==
    /\ futures[p].state = "running"
    /\ futures' = [futures EXCEPT ![p] = TaskOutcome(p, disk[p], ok)]
    /\ vector_store' = TaskWrite(vector_store, futures'[p])
    /\ UNCHANGED <<fsVars, otherVars, file_cache, documents, pc, run,
                   md_changes, stats, collected, completed, progress_calls,
                   raised, runs, seen, scanned, baseline, prevBaseline>>

\* one iteration of the collecting loop
Collect(p) ==
    /\ pc = "collecting"
    /\ ~raised
    /\ p \in Submitted \ collected
    /\ Collectable(futures[p])
    /\ collected' = collected \cup {p}
    /\ \E cs \in {CollectStep([documents |-> documents, stats |-> stats,
                                completed |-> completed,
                                progress_calls |-> progress_calls,
                                raised |-> raised],
                               p, futures[p], Cardinality(Submitted), TRUE)} :
           /\ documents' = cs.documents
           /\ stats' = cs.stats
           /\ completed' = cs.completed
           /\ progress_calls' = cs.progress_calls
           /\ raised' = cs.raised
    /\ UNCHANGED <<fsVars, otherVars, file_cache, vector_store, pc, run,
                   md_changes, futures, runs, seen, scanned, baseline,
                   prevBaseline>>

\* a collecting loop that is left after the first future, with a pool that
\* is not joined
BatchFinishedEarly == collected # {}

\* the end of the "with ThreadPoolExecutor" block: the loop has yielded
\* every future and shutdown(wait=True) has joined the workers
BatchFinished ==
    /\ collected = Submitted
    /\ \A p \in Submitted : futures[p].state \in {"done", "failed"}

ExitPool ==
    /\ pc = "collecting"
    /\ ~raised
    /\ BatchFinished
    /\ pc' = "building"
    /\ UNCHANGED <<fsVars, otherVars, file_cache, documents, vector_store,
                   run, md_changes, stats, futures, collected, completed,
                   progress_calls, raised, runs, seen, scanned, baseline,
                   prevBaseline>>

\* relationship building and the return of the statistics
BuildRelationships ==
    /\ pc = "building"
    /\ stats' = BuildEffect(documents, stats)
    /\ pc' = "done"
    /\ UNCHANGED <<fsVars, otherVars, file_cache, documents, vector_store,
                   run, md_changes, futures, collected, completed,
                   progress_calls, raised, runs, seen, scanned, baseline,
                   prevBaseline>>

Next ==
    \/ \E fs \in FolderLists, force \in BOOLEAN : StartRun(fs, force)
    \/ \E p \in Paths : TaskStart(p)
    \/ \E p \in Paths, ok \in BOOLEAN : TaskFinish(p, ok)
    \/ \E p \in Paths : Collect(p)
    \/ ExitPool
    \/ BuildRelationships

Spec == Init /\ [][Next]_vars

(***************************************************************************)
(* process_folders as one operation, between edits of the file tree        *)
(***************************************************************************)
\* the writes of the tasks, in the order in which the tasks finish
RECURSIVE WriteAll(_, _, _, _)
WriteAll(store, order, futs, i) ==
    IF i > Len(order) THEN store
    ELSE WriteAll(TaskWrite(store, futs[order[i]]), order, futs, i + 1)

\* the collecting loop over the futures, in the order they are yielded,
\* for a call without progress_callback
RECURSIVE CollectAll(_, _, _, _)
CollectAll(cs, order, futs, i) ==
    IF i > Len(order) \/ cs.raised THEN cs
    ELSE CollectAll(CollectStep(cs, order[i], futs[order[i]], Len(order),
                                FALSE),
                    order, futs, i + 1)

\* the batch of b once its tasks have finished in the given order
RunBatch(b, order, ok) ==
    LET futs == [p \in Paths |->
                    IF p \in b.to_process
                    THEN TaskOutcome(p, disk[p], ok[p]) ELSE NoFuture]
    IN  [futures |-> futs,
         vector_store |-> WriteAll(b.vector_store, order, futs, 1),
         cs |-> CollectAll([documents |-> b.documents, stats |-> b.stats,
                            completed |-> 0, progress_calls |-> <<>>,
                            raised |-> FALSE], order, futs, 1)]

ProcessFolders(folders, force) ==
    /\ pc \in {"idle", "done"}
    /\ runs + edits < MaxOps
    /\ \E b \in {Begin(folders, force)} :
       \E r \in {RunBatch(b, order, ok) :
                    order \in Perms(b.to_process),
                    ok \in [b.to_process -> BOOLEAN]} :
            /\ file_cache' = b.file_cache
            /\ md_changes' = b.md_changes
            /\ vector_store' = r.vector_store
            /\ futures' = r.futures
            /\ collected' = b.to_process
            /\ documents' = r.cs.documents
            /\ completed' = r.cs.completed
            /\ progress_calls' = r.cs.progress_calls
            /\ raised' = r.cs.raised
            /\ stats' = IF b.to_process = {} THEN r.cs.stats
                        ELSE BuildEffect(r.cs.documents, r.cs.stats)
            /\ pc' = "done"
    /\ Enter(folders, force)

RunsNext ==
    \/ \E p \in Paths, c \in Contents : WriteFile(p, c)
    \/ \E p \in Paths : RemoveFile(p)
    \/ \E r \in Roots : RemoveFolder(r)
    \/ \E fs \in FolderLists, force \in BOOLEAN : ProcessFolders(fs, force)

\* the vault of the ingest scenario: doc1.md links to doc2.md, and a second
\* folder holds another doc1.md
RunsInit ==
    /\ Init
    /\ disk = [p \in Paths |-> IF p = "A/doc1.md" THEN "long" ELSE "short"]

RunsSpec == RunsInit /\ [][RunsNext]_vars

(***************************************************************************)
(* Conversation (rag/conversation.py)                                      *)
(***************************************************************************)
Roles == {"system", "user", "assistant"}
MsgContents == {"hi", "a longer message"}

\* a turn counter that counts user messages too
TurnsAfterAny(tc, role) == IF role \in {"user", "assistant"} THEN tc + 1 ELSE tc

\* the turn counter after add_message of a message with the given role
TurnsAfter(tc, role) ==
    IF role \in {"user", "assistant"}
    THEN (IF role = "assistant" THEN tc + 1 ELSE tc)
    ELSE tc

NoReturn == [called |-> FALSE, max_tokens |-> 0, result |-> <<>>]

\* Conversation.add_message
add_message(m) ==
    /\ appended < MaxMsgs
    /\ messages' = Append(messages, m)
    /\ turn_count' = TurnsAfter(turn_count, m.role)
    /\ appended' = appended + 1
    /\ returned' = NoReturn
    /\ UNCHANGED <<fsVars, runVars, extVars>>

IsSystem(m) == m.role = "system"

\* Conversation.clear_history
clear_history(keep_system) ==
    /\ messages' = IF keep_system THEN SelectSeq(messages, IsSystem) ELSE <<>>
    /\ turn_count' = 0
    /\ returned' = NoReturn
    /\ UNCHANGED <<appended, fsVars, runVars, extVars>>

\* len(content) of the two message texts
ContentLen(c) == IF c = "hi" THEN 2 ELSE 16

\* len(m.content) // 4
MessageTokens(m) == ContentLen(m.content) \div 4

\* the positions in msgs of the system (or of the other) messages, in order
RECURSIVE Positions(_, _, _)
Positions(msgs, i, system) ==
    IF i > Len(msgs) THEN <<>>
    ELSE IF (msgs[i].role = "system") = system
         THEN <<i>> \o Positions(msgs, i + 1, system)
         ELSE Positions(msgs, i + 1, system)

\* sum(len(m.content) // 4 for m in ...) over the positions ps of msgs
RECURSIVE TokensOf(_, _)
TokensOf(msgs, ps) ==
    IF ps = <<>> THEN 0
    ELSE MessageTokens(msgs[Head(ps)]) + TokensOf(msgs, Tail(ps))

\* the loop "for message in reversed(other_messages)" of get_messages from
\* position k of others downwards: the positions inserted after the system
\* messages, each new one in front of the ones inserted before
RECURSIVE TakeRecent(_, _, _, _, _, _)
TakeRecent(msgs, others, k, tokens_used, max_tokens, taken) ==
    IF k = 0 THEN taken
    ELSE LET message_tokens == MessageTokens(msgs[others[k]])
         IN  IF tokens_used + message_tokens <= max_tokens
             THEN TakeRecent(msgs, others, k - 1,
                             tokens_used + message_tokens, max_tokens,
                             <<others[k]>> \o taken)
             ELSE taken

NoLimit == -1

\* Conversation.get_messages(max_tokens): the positions in the log of the
\* messages it returns, in the order of the returned list
get_messages(msgs, max_tokens) ==
    IF max_tokens = NoLimit THEN [i \in 1..Len(msgs) |-> i]
    ELSE LET system_messages == Positions(msgs, 1, TRUE)
             other_messages == Positions(msgs, 1, FALSE)
         IN  system_messages
             \o TakeRecent(msgs, other_messages, Len(other_messages),
                           TokensOf(msgs, system_messages), max_tokens, <<>>)

\* a caller asks for the messages of the conversation
GetMessages(max_tokens) ==
    /\ returned' = [called |-> TRUE, max_tokens |-> max_tokens,
                    result |-> get_messages(messages, max_tokens)]
    /\ UNCHANGED <<messages, turn_count, appended, fsVars, runVars, extVars>>

ConvNext ==
    \/ \E r \in Roles, c \in MsgContents :
            add_message([role |-> r, content |-> c])
    \/ \E keep_system \in BOOLEAN : clear_history(keep_system)
    \/ \E max_tokens \in {NoLimit} \cup (0..MaxBudget) : GetMessages(max_tokens)

\* a new Conversation; the processor is not used
ConvInit == Init /\ disk = [p \in Paths |-> Absent]

ConvSpec == ConvInit /\ [][ConvNext]_vars

(***************************************************************************)
(* ConversationManager (rag/conversation.py) and RAGEngine (rag/engine.py) *)
(***************************************************************************)
\* LLMMessage.to_dict
MessageToDict(m) == [role |-> m.role, content |-> m.content]

\* Conversation.to_dict (the fields the model keeps)
ConversationToDict(conv) ==
    [session_id |-> conv.session_id,
     messages |-> [i \in 1..Len(conv.messages) |->
                      MessageToDict(conv.messages[i])],
     turn_count |-> conv.turn_count]

Raised == [session_id |-> "raised"]

\* Conversation.from_dict: LLMMessage has no from_dict, so the list
\* comprehension raises AttributeError on the first message
ConversationFromDict(data) ==
    IF Len(data.messages) > 0 THEN Raised
    ELSE [session_id |-> data.session_id, messages |-> <<>>,
          turn_count |-> data.turn_count]

\* ConversationManager.load_conversation: None when there is no directory,
\* no file, or when reading raises
load_conversation(dir, files, id) ==
    IF ~dir THEN NoConv
    ELSE IF files[id] = NoFile THEN NoConv
    ELSE LET conv == ConversationFromDict(files[id])
         IN  IF conv = Raised THEN NoConv ELSE conv

\* ConversationManager.get_conversation: the conversation returned and the
\* in-memory dict afterwards
get_conversation(convs, dir, files, id) ==
    IF convs[id] # NoConv THEN [conv |-> convs[id], conversations |-> convs]
    ELSE LET conv == load_conversation(dir, files, id)
         IN  IF conv # NoConv
             THEN [conv |-> conv,
                   conversations |-> [convs EXCEPT ![id] = conv]]
             ELSE [conv |-> NoConv, conversations |-> convs]

\* ConversationManager.create_conversation
create_conversation(id, system_message) ==
    [session_id |-> id,
     messages |-> IF system_message # None
                  THEN <<[role |-> "system", content |-> system_message]>>
                  ELSE <<>>,
     turn_count |-> 0]

\* ConversationManager.save_conversation: the files afterwards
save_conversation(convs, dir, files, id) ==
    IF ~dir THEN files
    ELSE IF convs[id] = NoConv THEN files
    ELSE [files EXCEPT ![id] = ConversationToDict(convs[id])]

\* RAGEngine._get_or_create_conversation: the conversation and the
\* in-memory dict afterwards
GetOrCreate(convs, dir, files, conversation_id, now) ==
    LET g == IF conversation_id # NoId
             THEN get_conversation(convs, dir, files, conversation_id)
             ELSE [conv |-> NoConv, conversations |-> convs]
        id == IF conversation_id # NoId THEN conversation_id
              ELSE GeneratedId(now)
    IN  IF g.conv # NoConv THEN g
        ELSE LET conv == create_conversation(id, "SYSTEM_RAG")
             IN  [conv |-> conv,
                  conversations |-> [g.conversations EXCEPT ![id] = conv]]

\* RAGEngine._update_conversation: the two add_message calls
UpdateConversation(conv) ==
    [conv EXCEPT
        !.messages = @ \o <<[role |-> "user", content |-> "query"],
                            [role |-> "assistant", content |-> "answer"]>>,
        !.turn_count = TurnsAfter(TurnsAfter(@, "user"), "assistant")]

\* a query that appends the user message before the answer is generated
ConversationAfterUserFirst(conv, outcome) ==
    IF outcome.kind = "answer" THEN UpdateConversation(conv)
    ELSE IF outcome.kind = "raise" /\ outcome.step # "process_query"
    THEN [conv EXCEPT
            !.messages = Append(@, [role |-> "user", content |-> "query"]),
            !.turn_count = TurnsAfter(@, "user")]
    ELSE conv

\* RAGEngine.query: the conversation at the return; _update_conversation is
\* step 5, reached only when no step has raised and chunks were retrieved
ConversationAfter(conv, outcome) ==
    IF outcome.kind = "answer" THEN UpdateConversation(conv) ELSE conv

\* RAGStats.update: "if result.error" is false for None and for ""
RagStatsUpdate(st, result) ==
    LET failed == result.error # "none" /\ result.error # ""
    IN  [st EXCEPT !.total_queries = @ + 1,
                   !.failed_queries = IF failed THEN @ + 1 ELSE @,
                   !.successful_queries = IF failed THEN @ ELSE @ + 1]

\* what a query can meet: an answer, no retrieved chunk, or an exception
\* with message msg raised by one of its steps
QueryOutcomes ==
    {[kind |-> "answer", step |-> "none", msg |-> "none"],
     [kind |-> "no_results", step |-> "none", msg |-> "none"]}
    \cup {[kind |-> "raise", step |-> st, msg |-> m] :
            st \in {"process_query", "generate", "format"},
            m \in {"", "timeout"}}

\* the RAGResult of RAGEngine.query
QueryResult(conversation_id, conv, outcome) ==
    IF outcome.kind = "raise"
    THEN [conversation_id |-> IF conversation_id # NoId
                              THEN conversation_id ELSE "error",
          turn_count |-> 0, has_local_data |-> FALSE,
          error |-> outcome.msg,
          content |-> <<"error while processing the query: ", outcome.msg>>]
    ELSE IF outcome.kind = "no_results"
    THEN [conversation_id |-> conv.session_id,
          turn_count |-> conv.turn_count, has_local_data |-> FALSE,
          error |-> "none", content |-> <<"no results">>]
    ELSE [conversation_id |-> conv.session_id,
          turn_count |-> UpdateConversation(conv).turn_count,
          has_local_data |-> TRUE, error |-> "none",
          content |-> <<"answer">>]

\* RAGEngine.query(query, conversation_id)
Query(conversation_id, outcome) ==
    /\ rag_ops < MaxRagOps
    /\ rag_ops' = rag_ops + 1
    /\ \E g \in {GetOrCreate(conversations, storage_dir, conv_files,
                              conversation_id, clock)} :
        LET id == g.conv.session_id
            after == [g.conversations EXCEPT
                         ![id] = ConversationAfter(g.conv, outcome)]
            files == IF outcome.kind = "answer"
                     THEN save_conversation(after, storage_dir, conv_files,
                                            id)
                     ELSE conv_files
            result == QueryResult(conversation_id, g.conv, outcome)
        IN  /\ conversations' = after
            /\ conv_files' = files
            /\ rag_stats' = RagStatsUpdate(rag_stats, result)
            /\ rag_result' =
                   [called |-> TRUE, conversation_id |-> conversation_id,
                    raised |-> outcome.kind = "raise",
                    previous_turn |-> IF conversation_id # NoId
                                      THEN last_turn[conversation_id]
                                      ELSE NoTurn,
                    stats_before |-> rag_stats, result |-> result,
                    session_id |-> id, generated_before |-> generated,
                    conversations_before |-> conversations,
                    conversations_after |-> after,
                    files_before |-> conv_files, files_after |-> files]
            /\ generated' = IF conversation_id = NoId
                            THEN generated \cup {id} ELSE generated
            /\ last_turn' = IF conversation_id # NoId
                            THEN [last_turn EXCEPT
                                     ![conversation_id] = result.turn_count]
                            ELSE last_turn
    /\ UNCHANGED <<storage_dir, got, clock, fsVars, runVars, convVars, migVars,
                   graphVars, viewVars, chunkVars, scoreVars>>

\* a caller saves a conversation of the manager
SaveConversation(id) ==
    /\ rag_ops < MaxRagOps
    /\ rag_ops' = rag_ops + 1
    /\ conv_files' = save_conversation(conversations, storage_dir,
                                       conv_files, id)
    /\ UNCHANGED <<conversations, storage_dir, rag_stats, rag_result,
                   last_turn, got, clock, generated, fsVars, runVars, convVars, migVars,
                   graphVars, viewVars, chunkVars, scoreVars>>

\* a caller creates a conversation, with or without a system message
CreateConversation(id, system_message) ==
    /\ rag_ops < MaxRagOps
    /\ rag_ops' = rag_ops + 1
    /\ conversations' = [conversations EXCEPT
                            ![id] = create_conversation(id, system_message)]
    /\ UNCHANGED <<storage_dir, conv_files, rag_stats, rag_result,
                   last_turn, got, clock, generated, fsVars, runVars, convVars, migVars,
                   graphVars, viewVars, chunkVars, scoreVars>>

\* a caller asks the manager for a conversation
GetConversation(id) ==
    /\ rag_ops < MaxRagOps
    /\ rag_ops' = rag_ops + 1
    /\ \E g \in {get_conversation(conversations, storage_dir, conv_files,
                                   id)} :
           /\ conversations' = g.conversations
           /\ got' = [called |-> TRUE, session_id |-> id,
                      missed |-> conversations[id] = NoConv,
                      saved |-> IF storage_dir THEN conv_files[id]
                                ELSE NoFile,
                      conv |-> g.conv]
    /\ UNCHANGED <<storage_dir, conv_files, rag_stats, rag_result,
                   last_turn, clock, generated, fsVars, runVars, convVars, migVars,
                   graphVars, viewVars, chunkVars, scoreVars>>

\* ConversationManager(storage_dir): a new manager, with or without a
\* storage directory; the files of the directory stay
NewManager(dir) ==
    /\ rag_ops < MaxRagOps
    /\ rag_ops' = rag_ops + 1
    /\ conversations' = [id \in SessionIds |-> NoConv]
    /\ storage_dir' = dir
    /\ UNCHANGED <<conv_files, rag_stats, rag_result, last_turn, got,
                   clock, generated,
                   fsVars, runVars, convVars, migVars,
                   graphVars, viewVars, chunkVars, scoreVars>>

\* a second passes
Tick ==
    /\ clock < MaxSeconds
    /\ clock' = clock + 1
    /\ UNCHANGED <<conversations, storage_dir, conv_files, rag_stats,
                   rag_result, last_turn, got, rag_ops, generated,
                   fsVars, runVars, convVars, migVars,
                   graphVars, viewVars, chunkVars, scoreVars>>

RagNext ==
    \/ \E conversation_id \in {NoId, "s1"}, outcome \in QueryOutcomes :
            Query(conversation_id, outcome)
    \/ \E id \in SessionIds : SaveConversation(id)
    \/ \E id \in SessionIds, system_message \in {None, "sys"} :
            CreateConversation(id, system_message)
    \/ \E id \in SessionIds : GetConversation(id)
    \/ \E dir \in BOOLEAN : NewManager(dir)
    \/ Tick

RagSpec == ConvInit /\ [][RagNext]_vars

(***************************************************************************)
(* SourceVerifier, ExportManager and ImportManager (migration/)            *)
(***************************************************************************)
\* doc_path.relative_to(folder_path) succeeds
IsRelativeTo(d, folder) ==
    folder = ParentFolder(d) \/ folder = Outer(ParentFolder(d))

\* SourceVerifier._find_document_source: the first listed folder the
\* document lies in, from index i
RECURSIVE FindDocumentSource(_, _, _)
FindDocumentSource(d, source_folders, i) ==
    IF i > Len(source_folders) THEN NoSource
    ELSE IF IsRelativeTo(d, source_folders[i]) THEN source_folders[i]
    ELSE FindDocumentSource(d, source_folders, i + 1)

\* the status verify_sources leaves on a document of source doc_source
VerifiedStatus(status, doc_source, exists) ==
    IF doc_source = NoSource THEN status
    ELSE IF ~exists[doc_source] THEN "frozen"
    ELSE IF status = "frozen" THEN "active"
    ELSE status

\* Document.__post_init__
PostInit(doc, file_exists) ==
    [doc EXCEPT !.status = IF ~file_exists THEN "frozen" ELSE @,
                !.metadata.title = IF @ = None THEN FileStem(doc.doc_id)
                                   ELSE @]

\* ExportManager.export_documents: the entry of documents.json for doc
ExportDocument(doc) ==
    [doc_id |-> doc.doc_id,
     file_path |-> doc.file_path,
     metadata |-> [title |-> doc.metadata.title],
     chunks |-> doc.chunks,
     relationships |-> doc.relationships,
     status |-> doc.status]

\* ImportManager.import_documents: the Document built from an entry
ImportDocument(doc_dict, file_exists) ==
    PostInit([doc_id |-> doc_dict.doc_id,
              file_path |-> doc_dict.file_path,
              metadata |-> [title |-> doc_dict.metadata.title,
                            created_date |-> None],
              chunks |-> doc_dict.chunks,
              relationships |-> doc_dict.relationships,
              status |-> doc_dict.status],
             file_exists)

\* ExportManager.export_vector_database: the vector_db directory of the
\* export; an archive holds files only, so it loses an empty directory
ExportVectorDb(persist_directory, create_archive) ==
    IF persist_directory = NoDir
    THEN (IF create_archive THEN NoDir ELSE "empty_dir")
    ELSE persist_directory

\* ImportManager.import_vector_database: the target's directory afterwards,
\* given the directory target_dir it held before
ImportVectorDb(vector_db, target_persists, target_dir) ==
    IF vector_db = NoDir THEN target_dir
    ELSE IF target_persists THEN vector_db
    ELSE target_dir

\* a source folder disappears, with the folder nested in it
RemoveSource(f) ==
    /\ mig_ops < MaxMigOps
    /\ mig_ops' = mig_ops + 1
    /\ src_exists[f]
    /\ src_exists' = [g \in SourceFolders |->
                         IF g = f \/ Outer(g) = f THEN FALSE
                         ELSE src_exists[g]]
    /\ UNCHANGED <<kb_docs, last_verify, snapshot, imported,
                   fsVars, runVars, convVars, ragVars,
                   graphVars, viewVars, chunkVars, scoreVars>>

\* a source folder reappears, with its files
RestoreSource(f) ==
    /\ mig_ops < MaxMigOps
    /\ mig_ops' = mig_ops + 1
    /\ ~src_exists[f]
    /\ src_exists[Outer(f)] \/ Outer(f) = f
    /\ src_exists' = [src_exists EXCEPT ![f] = TRUE]
    /\ UNCHANGED <<kb_docs, last_verify, snapshot, imported,
                   fsVars, runVars, convVars, ragVars,
                   graphVars, viewVars, chunkVars, scoreVars>>

\* SourceVerifier.verify_sources(documents, source_folders)
VerifySources(source_folders) ==
    /\ mig_ops < MaxMigOps
    /\ mig_ops' = mig_ops + 1
    /\ LET doc_source == [d \in DocIds |->
                             FindDocumentSource(d, source_folders, 1)]
       IN  /\ kb_docs' = [d \in DocIds |->
                             [kb_docs[d] EXCEPT !.status =
                                 VerifiedStatus(@, doc_source[d], src_exists)]]
           /\ last_verify' =
                 [called |-> TRUE, folders |-> source_folders,
                  exists |-> src_exists, doc_source |-> doc_source,
                  document_count |->
                     [f \in SourceFolders |->
                         Cardinality({d \in DocIds : doc_source[d] = f})]]
    /\ UNCHANGED <<src_exists, snapshot, imported,
                   fsVars, runVars, convVars, ragVars,
                   graphVars, viewVars, chunkVars, scoreVars>>

\* ExportManager.export_all(documents, source_folders, create_archive)
ExportAll(persist_directory, create_archive) ==
    /\ mig_ops < MaxMigOps
    /\ mig_ops' = mig_ops + 1
    /\ snapshot' = [made |-> TRUE,
                    documents |-> kb_docs,
                    documents_json |-> [d \in DocIds |->
                                           ExportDocument(kb_docs[d])],
                    exported_vector_db |->
                        IF persist_directory = NoDir THEN "empty_dir"
                        ELSE persist_directory,
                    vector_db |-> ExportVectorDb(persist_directory,
                                                 create_archive),
                    manifest |-> TRUE,
                    documents_file |-> TRUE]
    /\ UNCHANGED <<src_exists, kb_docs, last_verify, imported,
                   fsVars, runVars, convVars, ragVars,
                   graphVars, viewVars, chunkVars, scoreVars>>

\* a file of the export directory is lost on the way to the target
LoseExportFile(name) ==
    /\ mig_ops < MaxMigOps
    /\ mig_ops' = mig_ops + 1
    /\ snapshot.made
    /\ \/ name = "manifest.json" /\ snapshot.manifest
          /\ snapshot' = [snapshot EXCEPT !.manifest = FALSE]
       \/ name = "documents.json" /\ snapshot.documents_file
          /\ snapshot' = [snapshot EXCEPT !.documents_file = FALSE]
    /\ UNCHANGED <<src_exists, kb_docs, last_verify, imported,
                   fsVars, runVars, convVars, ragVars,
                   graphVars, viewVars, chunkVars, scoreVars>>

\* ImportManager.import_all() into a target whose knowledge base is empty
\* and whose vector store holds the directory target_dir; the imported
\* documents become the documents of the knowledge base
ImportAll(target_persists, target_dir) ==
    /\ mig_ops < MaxMigOps
    /\ mig_ops' = mig_ops + 1
    /\ snapshot.made
    /\ IF ~snapshot.manifest
       THEN \* "Manifest file not found": nothing else is done
            /\ imported' = [done |-> FALSE, returned |-> TRUE,
                            success |-> FALSE, target_before |-> target_dir,
                            vector_dir |-> target_dir]
            /\ UNCHANGED <<kb_docs, last_verify>>
       ELSE IF ~snapshot.documents_file
       THEN \* "Documents file not found": no document, one error
            /\ imported' = [done |-> FALSE, returned |-> TRUE,
                            success |-> FALSE, target_before |-> target_dir,
                            vector_dir |-> ImportVectorDb(snapshot.vector_db,
                                                          target_persists,
                                                          target_dir)]
            /\ UNCHANGED <<kb_docs, last_verify>>
       ELSE LET docs == [d \in DocIds |->
                            ImportDocument(snapshot.documents_json[d],
                                           src_exists[ParentFolder(d)])]
            IN  /\ imported' = [done |-> TRUE, returned |-> TRUE,
                                success |-> TRUE, docs |-> docs,
                                target_before |-> target_dir,
                                vector_dir |->
                                    ImportVectorDb(snapshot.vector_db,
                                                   target_persists,
                                                   target_dir)]
                /\ kb_docs' = docs
                /\ last_verify' = NoVerify
    /\ UNCHANGED <<src_exists, snapshot,
                   fsVars, runVars, convVars, ragVars,
                   graphVars, viewVars, chunkVars, scoreVars>>

\* the lists of source folders verify_sources is called with
SourceFolderLists ==
    {s \in UNION {[1..n -> SourceFolders] :
                    n \in 1..Cardinality(SourceFolders)} :
        \A i, j \in DOMAIN s : i # j => s[i] # s[j]}

MigNext ==
    \/ \E f \in SourceFolders : RemoveSource(f)
    \/ \E f \in SourceFolders : RestoreSource(f)
    \/ \E source_folders \in SourceFolderLists : VerifySources(source_folders)
    \/ \E persist_directory \in {NoDir, "chroma_files"},
          create_archive \in BOOLEAN :
            ExportAll(persist_directory, create_archive)
    \/ \E name \in {"manifest.json", "documents.json"} : LoseExportFile(name)
    \/ \E target_persists \in BOOLEAN, target_dir \in {NoDir, "old_index"} :
          ImportAll(target_persists, target_dir)

MigSpec == ConvInit /\ [][MigNext]_vars

(***************************************************************************)
(* GraphBuilder (graph/builder.py)                                         *)
(*                                                                         *)
(* Scores are in hundredths and weights in ten-thousandths, so that the    *)
(* weighted sum of calculate_weight is exact.                              *)
(***************************************************************************)
min_edge_weight == 1000

\* GraphBuilder._calculate_wikilink_score
CalculateWikilinkScore(rels, doc1, doc2) ==
    IF <<doc1, doc2>> \in rels \/ <<doc2, doc1>> \in rels THEN 100 ELSE 0

\* GraphBuilder._calculate_vector_score: embeddings are unit vectors, equal
\* ("x" and "x") or orthogonal ("x" and "y")
CalculateVectorScore(embs, doc1, doc2) ==
    IF embs[doc1] = None \/ embs[doc2] = None THEN 0
    ELSE IF embs[doc1] = embs[doc2] THEN 100
    ELSE 50

\* GraphBuilder._extract_keywords: the titles are shorter than
\* keyword_min_length, so the keywords are the tags
ExtractKeywords(tgs, doc) == tgs[doc]

\* GraphBuilder._calculate_keyword_score
CalculateKeywordScore(tgs, doc1, doc2) ==
    LET keywords1 == ExtractKeywords(tgs, doc1)
        keywords2 == ExtractKeywords(tgs, doc2)
    IN  IF keywords1 = {} \/ keywords2 = {} THEN 0
        ELSE (100 * Cardinality(keywords1 \cap keywords2))
                 \div Cardinality(keywords1 \cup keywords2)

\* GraphEdge.calculate_weight
CalculateWeight(wikilink_score, vector_score, keyword_score) ==
    wikilink_score * 20 + vector_score * 50 + keyword_score * 30

\* GraphBuilder._build_edge; an edge of weight 0 stands for None
BuildEdge(rels, tgs, embs, doc1, doc2) ==
    [source_id |-> doc1, target_id |-> doc2,
     weight |-> CalculateWeight(CalculateWikilinkScore(rels, doc1, doc2),
                                CalculateVectorScore(embs, doc1, doc2),
                                CalculateKeywordScore(tgs, doc1, doc2))]

\* build_graph: doc_pairs from position <<i, j>> on, in the order of the
\* two loops
RECURSIVE DocPairs(_, _)
DocPairs(i, j) ==
    IF i >= NumGraphDocs THEN <<>>
    ELSE IF j > NumGraphDocs THEN DocPairs(i + 1, i + 2)
    ELSE <<(<<i, j>>)>> \o DocPairs(i, j + 1)

\* build_graph: the edges added to the graph, in order
RECURSIVE AddedEdges(_, _, _, _)
AddedEdges(rels, tgs, embs, pairs) ==
    IF pairs = <<>> THEN <<>>
    ELSE LET edge == BuildEdge(rels, tgs, embs, Head(pairs)[1], Head(pairs)[2])
             rest == AddedEdges(rels, tgs, embs, Tail(pairs))
         IN  IF edge.weight > 0 /\ edge.weight >= min_edge_weight
             THEN <<edge>> \o rest
             ELSE rest

\* _prune_edges: node_edges[node_id], as positions in graph.edges
NodeEdges(edges, node_id) ==
    {e \in DOMAIN edges :
        edges[e].source_id = node_id \/ edges[e].target_id = node_id}

\* _prune_edges: the edges node_id votes for: the first n of its edges in
\* the stable sort by descending weight
TopEdges(edges, node_id, n) ==
    {e \in NodeEdges(edges, node_id) :
        Cardinality({f \in NodeEdges(edges, node_id) :
                        \/ edges[f].weight > edges[e].weight
                        \/ edges[f].weight = edges[e].weight /\ f < e}) < n}

\* _prune_edges: edges_to_keep
EdgesToKeep(edges, n) ==
    UNION {TopEdges(edges, node_id, n) : node_id \in GraphDocs}

\* the subsequence of edges at the positions in keep, from position e
RECURSIVE FilterEdges(_, _, _)
FilterEdges(edges, keep, e) ==
    IF e > Len(edges) THEN <<>>
    ELSE (IF e \in keep THEN <<edges[e]>> ELSE <<>>)
             \o FilterEdges(edges, keep, e + 1)

\* GraphBuilder._prune_edges
PruneEdges(edges, n) ==
    IF n <= 0 THEN edges
    ELSE FilterEdges(edges, EdgesToKeep(edges, n), 1)

\* node.degree, as _prune_edges recalculates it
Degree(edges, node_id) == Cardinality(NodeEdges(edges, node_id))

\* a document gets a wikilink to another one
AddWikilink(doc1, doc2) ==
    /\ graph_edits < MaxGraphEdits
    /\ graph_edits' = graph_edits + 1
    /\ doc1 # doc2
    /\ <<doc1, doc2>> \notin relationships
    /\ relationships' = relationships \cup {<<doc1, doc2>>}
    /\ graph' = NoGraph
    /\ view' = NoView
    /\ UNCHANGED <<tags, embeddings, view_ops,
                   fsVars, runVars, convVars, ragVars, migVars,
                   chunkVars, scoreVars>>

\* a document gets a tag
AddTag(doc, tag) ==
    /\ graph_edits < MaxGraphEdits
    /\ graph_edits' = graph_edits + 1
    /\ tag \notin tags[doc]
    /\ tags' = [tags EXCEPT ![doc] = @ \cup {tag}]
    /\ graph' = NoGraph
    /\ view' = NoView
    /\ UNCHANGED <<relationships, embeddings, view_ops,
                   fsVars, runVars, convVars, ragVars, migVars,
                   chunkVars, scoreVars>>

\* a document gets an embedding
SetEmbedding(doc, vec) ==
    /\ graph_edits < MaxGraphEdits
    /\ graph_edits' = graph_edits + 1
    /\ embeddings[doc] = None
    /\ embeddings' = [embeddings EXCEPT ![doc] = vec]
    /\ graph' = NoGraph
    /\ view' = NoView
    /\ UNCHANGED <<relationships, tags, view_ops,
                   fsVars, runVars, convVars, ragVars, migVars,
                   chunkVars, scoreVars>>

\* GraphBuilder(max_edges_per_node=n).build_graph(documents, embeddings)
BuildGraph(max_edges_per_node) ==
    /\ ~graph.built
    /\ \E added \in {AddedEdges(relationships, tags, embeddings,
                                 DocPairs(1, 2))} :
         \E edges \in {PruneEdges(added, max_edges_per_node)} :
            graph' = [built |-> TRUE,
                      max_edges_per_node |-> max_edges_per_node,
                      added |-> Len(added),
                      edges |-> edges,
                      degree |-> [d \in GraphDocs |-> Degree(edges, d)]]
    /\ UNCHANGED <<relationships, tags, embeddings, graph_edits, viewVars,
                   fsVars, runVars, convVars, ragVars, migVars,
                   chunkVars, scoreVars>>

GraphNext ==
    \/ \E doc1, doc2 \in GraphDocs : AddWikilink(doc1, doc2)
    \/ \E doc \in GraphDocs, tag \in {"rust"} : AddTag(doc, tag)
    \/ \E doc \in GraphDocs, vec \in {"x", "y"} : SetEmbedding(doc, vec)
    \/ \E max_edges_per_node \in 1..MaxEdgesPerNode :
          BuildGraph(max_edges_per_node)

GraphSpec == ConvInit /\ [][GraphNext]_vars

(***************************************************************************)
(* GraphVisualizer sub-graphs (graph/visualizer.py)                        *)
(*                                                                         *)
(* A sub-graph holds the GraphNode objects of the source graph, so         *)
(* graph.degree is the degree field of the nodes of both.                  *)
(***************************************************************************)
\* DocumentGraph.add_edge on a graph of the given nodes: the degree fields
\* after adding the edges from position e on
RECURSIVE AddEdges(_, _, _, _)
AddEdges(degree, nodes, edges, e) ==
    IF e > Len(edges) THEN degree
    ELSE LET source_id == edges[e].source_id
             target_id == edges[e].target_id
             counted == [d \in GraphDocs |->
                            degree[d]
                            + (IF d = source_id /\ d \in nodes THEN 1 ELSE 0)
                            + (IF d = target_id /\ d \in nodes THEN 1 ELSE 0)]
         IN  AddEdges(counted, nodes, edges, e + 1)

\* the edges both of whose ends are in nodes
EdgesBetween(edges, nodes) ==
    FilterEdges(edges,
                {e \in DOMAIN edges : edges[e].source_id \in nodes
                                      /\ edges[e].target_id \in nodes},
                1)

\* GraphAnalyzer.get_neighbors: the nodes within max_distance hops of the
\* nodes in visited
RECURSIVE Neighbors(_, _, _)
Neighbors(edges, visited, max_distance) ==
    IF max_distance = 0 THEN visited
    ELSE Neighbors(edges,
                   visited \cup {d \in GraphDocs :
                                    \E e \in DOMAIN edges :
                                        \/ edges[e].source_id \in visited
                                           /\ edges[e].target_id = d
                                        \/ edges[e].target_id \in visited
                                           /\ edges[e].source_id = d},
                   max_distance - 1)

\* the sub-graph of the given nodes is built over the source graph
SubGraph(nodes) ==
    /\ view_ops < MaxViewOps
    /\ view_ops' = view_ops + 1
    /\ LET edges == EdgesBetween(graph.edges, nodes)
       IN  /\ graph' = [graph EXCEPT
                           !.degree = AddEdges(graph.degree, nodes, edges, 1)]
           /\ view' = [called |-> TRUE, nodes |-> nodes, edges |-> edges,
                       source_edges |-> graph.edges,
                       source_degree |-> graph.degree]
    /\ UNCHANGED <<relationships, tags, embeddings, graph_edits,
                   fsVars, runVars, convVars, ragVars, migVars,
                   chunkVars, scoreVars>>

\* GraphVisualizer.filter_by_tags(tags)
FilterByTags(tag_list) ==
    /\ graph.built
    /\ SubGraph({d \in GraphDocs : tags[d] \cap tag_list # {}})

\* GraphVisualizer.expand_from_node(node_id, max_hops)
ExpandFromNode(node_id, max_hops) ==
    /\ graph.built
    /\ SubGraph(Neighbors(graph.edges, {node_id}, max_hops))

ViewNext ==
    \/ GraphNext
    \/ \E tag_list \in (SUBSET {"rust", "go"}) \ {{}} : FilterByTags(tag_list)
    \/ \E node_id \in GraphDocs, max_hops \in 1..MaxHops :
          ExpandFromNode(node_id, max_hops)

ViewSpec == ConvInit /\ [][ViewNext]_vars

(***************************************************************************)
(* DocumentChunker (core/chunker.py)                                       *)
(*                                                                         *)
(* A sentence of the working text is a number of characters and the number *)
(* of [CODE_BLOCK] markers in it; a chunk is the list of the positions of  *)
(* its sentences.                                                          *)
(***************************************************************************)
\* len("[CODE_BLOCK]")
MarkerChars == 12

\* the sentences split_by_sentences returns: stripped and not empty
SentenceKinds ==
    {sn \in [chars : 0..MaxSentenceChars, blocks : 0..1] :
        sn.chars + sn.blocks > 0}

\* DocumentChunker.count_tokens of a sentence, without a tokenizer
CountTokens(sentence) ==
    (sentence.chars + MarkerChars * sentence.blocks) \div 3

\* chunk_text: the overlap kept from current_chunk, from position j down
RECURSIVE OverlapSentences(_, _, _, _, _, _)
OverlapSentences(sents, current_chunk, j, overlap_sentences, overlap_tokens, chunk_overlap) ==
    IF j < 1 THEN [sentences |-> overlap_sentences, tokens |-> overlap_tokens]
    ELSE LET sent_tokens == CountTokens(sents[current_chunk[j]])
         IN  IF overlap_tokens + sent_tokens <= chunk_overlap
             THEN OverlapSentences(sents, current_chunk, j - 1,
                                   <<current_chunk[j]>> \o overlap_sentences,
                                   overlap_tokens + sent_tokens, chunk_overlap)
             ELSE [sentences |-> overlap_sentences, tokens |-> overlap_tokens]

\* chunk_text: the Chunk of the sentences current_chunk
MakeChunk(current_chunk, current_tokens) ==
    [sentences |-> current_chunk, token_count |-> current_tokens]

\* chunk_text: the loop over the sentences from position i on, and the
\* remaining chunk after it
RECURSIVE BuildChunks(_, _, _, _, _, _, _)
BuildChunks(sents, i, current_chunk, current_tokens, chunks, chunk_size, chunk_overlap) ==
    IF i > Len(sents)
    THEN (IF current_chunk # <<>>
          THEN Append(chunks, MakeChunk(current_chunk, current_tokens))
          ELSE chunks)
    ELSE LET sentence_tokens == CountTokens(sents[i])
         IN  IF current_tokens + sentence_tokens > chunk_size
                /\ current_chunk # <<>>
             THEN LET kept == OverlapSentences(sents, current_chunk,
                                               Len(current_chunk), <<>>, 0,
                                               chunk_overlap)
                  IN  BuildChunks(sents, i + 1, Append(kept.sentences, i),
                                  kept.tokens + sentence_tokens,
                                  Append(chunks, MakeChunk(current_chunk,
                                                           current_tokens)),
                                  chunk_size, chunk_overlap)
             ELSE BuildChunks(sents, i + 1, Append(current_chunk, i),
                              current_tokens + sentence_tokens, chunks,
                              chunk_size, chunk_overlap)

\* the positions of the sentences of a chunk that hold a marker, in order
RECURSIVE Markers(_, _, _)
Markers(sents, chunk_sentences, j) ==
    IF j > Len(chunk_sentences) THEN <<>>
    ELSE (IF sents[chunk_sentences[j]].blocks > 0
          THEN <<chunk_sentences[j]>> ELSE <<>>)
             \o Markers(sents, chunk_sentences, j + 1)

\* extract_code_blocks: the number of code blocks of the text
CodeBlocks(sents) ==
    Cardinality({i \in DOMAIN sents : sents[i].blocks > 0})

\* DocumentChunker._reinsert_code_blocks on one chunk: for every code
\* block in order, the first marker left in the chunk is replaced by it;
\* the result lists, per marker of the chunk, the block put there (0: none)
ReinsertCodeBlocks(sents, chunk) ==
    LET markers == Markers(sents, chunk.sentences, 1)
    IN  [sentences |-> chunk.sentences,
         token_count |-> chunk.token_count,
         markers |-> markers,
         code |-> [m \in DOMAIN markers |->
                     IF m <= CodeBlocks(sents) THEN m ELSE 0]]

\* DocumentChunker.chunk_text
chunk_text(sents, chunk_size, chunk_overlap) ==
    LET chunks == BuildChunks(sents, 1, <<>>, 0, <<>>, chunk_size,
                              chunk_overlap)
    IN  [c \in DOMAIN chunks |-> ReinsertCodeBlocks(sents, chunks[c])]

\* the text gets another sentence
AppendSentence(sentence) ==
    /\ Len(sentences) < MaxSentences
    /\ sentences' = Append(sentences, sentence)
    /\ chunked' = NoChunks
    /\ UNCHANGED <<fsVars, runVars, convVars, ragVars, migVars, graphVars,
                   viewVars, scoreVars>>

\* DocumentChunker(chunk_size, chunk_overlap).chunk_text(text)
ChunkTextCall(chunk_size, chunk_overlap) ==
    /\ ~chunked.done
    /\ chunked' = [done |-> TRUE, chunk_size |-> chunk_size,
                   chunk_overlap |-> chunk_overlap,
                   chunks |-> chunk_text(sentences, chunk_size, chunk_overlap)]
    /\ UNCHANGED <<sentences, fsVars, runVars, convVars, ragVars, migVars,
                   graphVars, viewVars, scoreVars>>

ChunkNext ==
    \/ \E sentence \in SentenceKinds : AppendSentence(sentence)
    \/ \E chunk_size \in 1..MaxChunkSize, chunk_overlap \in 0..MaxChunkOverlap :
          ChunkTextCall(chunk_size, chunk_overlap)

ChunkSpec == ConvInit /\ [][ChunkNext]_vars

(***************************************************************************)
(* The retrieval step of the query processor (rag/query_processor.py).     *)
(* A distance is a whole number of tenths; a score is the exact fraction   *)
(* num / den with den > 0.                                                 *)
(***************************************************************************)
\* a < b for two scores
ScoreLess(a, b) == a.num * b.den < b.num * a.den

\* max(0.0, min(1.0, score))
Clamp(score) ==
    IF score.num < 0 THEN [num |-> 0, den |-> 1]
    ELSE IF score.num > score.den THEN [num |-> 1, den |-> 1]
    ELSE score

\* the conversion of a distance to a similarity score: 1 - distance / 2
\* up to the distance 2.0, and 1 / (1 + distance / 100) beyond it
DistanceToScore(distance) ==
    IF distance > 20
    THEN Clamp([num |-> 1000, den |-> 1000 + distance])
    ELSE Clamp([num |-> 20 - distance, den |-> 20])

\* the values of min_score of the model: 0.0, the default 0.3, and 0.9
MinScores ==
    {[num |-> 0, den |-> 10], [num |-> 3, den |-> 10], [num |-> 9, den |-> 10]}

\* results.sort(key=lambda x: x.score, reverse=True): the stable sort puts
\* a result behind the results of an equal or higher score before it
RECURSIVE InsertByScore(_, _)
InsertByScore(sorted, result) ==
    IF sorted = <<>> THEN <<result>>
    ELSE IF ScoreLess(Head(sorted).score, result.score)
         THEN <<result>> \o sorted
         ELSE <<Head(sorted)>> \o InsertByScore(Tail(sorted), result)

RECURSIVE SortByScore(_)
SortByScore(results) ==
    IF results = <<>> THEN <<>>
    ELSE InsertByScore(SortByScore(SubSeq(results, 1, Len(results) - 1)),
                       results[Len(results)])

\* the loop of _retrieve_chunks over the rows from row i on
RECURSIVE KeptResults(_, _, _)
KeptResults(distances, i, min_score) ==
    IF i > Len(distances) THEN <<>>
    ELSE LET score == DistanceToScore(distances[i])
         IN  IF ScoreLess(score, min_score)
             THEN KeptResults(distances, i + 1, min_score)
             ELSE <<[chunk_id |-> i, score |-> score]>>
                  \o KeptResults(distances, i + 1, min_score)

\* QueryProcessor._retrieve_chunks
retrieve_chunks(distances, min_score) ==
    SortByScore(KeptResults(distances, 1, min_score))

\* the index holds another row for the query, no closer than the rows
\* before it: the index lists the rows by distance
AddRow(distance) ==
    /\ Len(rows) < MaxRows
    /\ rows # <<>> => rows[Len(rows)] <= distance
    /\ rows' = Append(rows, distance)
    /\ retrieved' = NoRetrieval
    /\ UNCHANGED <<fsVars, runVars, convVars, ragVars, migVars, graphVars,
                   viewVars, chunkVars>>

\* QueryProcessor(min_score=...)._retrieve_chunks(query)
RetrieveChunks(min_score) ==
    /\ ~retrieved.called
    /\ retrieved' = [called |-> TRUE, min_score |-> min_score,
                     scores |-> [i \in DOMAIN rows |->
                                   DistanceToScore(rows[i])],
                     results |-> retrieve_chunks(rows, min_score)]
    /\ UNCHANGED <<rows, fsVars, runVars, convVars, ragVars, migVars,
                   graphVars, viewVars, chunkVars>>

ScoreNext ==
    \/ \E distance \in 0..MaxDistance : AddRow(distance)
    \/ \E min_score \in MinScores : RetrieveChunks(min_score)

ScoreSpec == ConvInit /\ [][ScoreNext]_vars

(***************************************************************************)
(* Properties of the ingestion orchestrator                                *)
(***************************************************************************)
ReportedDeleted == PathsOfKind(md_changes, {"deleted"})
RunRoots == {run.folders[i] : i \in DOMAIN run.folders}
Failed == {p \in Paths : futures[p].state = "failed"}

\* C1: in a non-forced run a path is reported as deleted only if an earlier
\* run has seen it and the file no longer exists on disk.
C1_DeletedOnlyWhenGone ==
    (pc # "idle" /\ ~run.force) =>
        \A p \in ReportedDeleted : p \in seen /\ disk[p] = Absent

\* C2: after a run every chunk of every document of the registry has a row
\* in the vector index under its chunk_id, whose payload is the chunk content.
C2_ChunksMirrored ==
    (pc = "done") =>
        \A p \in Paths :
            documents[p] # NoDoc =>
                \A k \in 1..Len(documents[p].chunks) :
                    LET c == documents[p].chunks[k]
                    IN  /\ vector_store[c.chunk_id] # NoRow
                        /\ vector_store[c.chunk_id].document = c.content

\* C3: the chunk ids written by the tasks of two distinct files of one
\* batch are disjoint.
C3_DisjointChunkIds ==
    \A p, q \in Paths :
        (p # q /\ futures[p].state = "done" /\ futures[q].state = "done") =>
            ChunkIdsOf(futures[p].result) \cap ChunkIdsOf(futures[q].result) = {}

\* C4: a failing task does not make process_folders raise; at the return
\* every other file of the batch is in the registry, errors counts the
\* failed files and error_details holds one {path, error} entry for each.
C4_ErrorsCaptured ==
    /\ ~raised
    /\ (pc = "done" /\ Submitted # {}) =>
        /\ \A p \in Submitted \ Failed :
                /\ documents[p] # NoDoc
                /\ documents[p].raw_content = disk[p]
        /\ stats.errors = Cardinality(Failed)
        /\ Len(stats.error_details) = Cardinality(Failed)
        /\ \A p \in Failed :
                \E i \in 1..Len(stats.error_details) :
                    stats.error_details[i] =
                        [path |-> p, error |-> futures[p].error]

C4_Witness ==
    /\ pc = "done"
    /\ ~raised
    /\ Failed # {}
    /\ Submitted \ Failed # {}
    /\ stats.errors = Cardinality(Failed)

\* the files of a baseline
BaseFiles(b) == {p \in Paths : b.files[p] # Absent}
SameFolderRuns ==
    /\ pc = "done"
    /\ prevBaseline # NoBaseline
    /\ baseline # NoBaseline
    /\ baseline.folder = prevBaseline.folder
    /\ BaseFiles(baseline) = BaseFiles(prevBaseline)
ChangedFiles ==
    {p \in BaseFiles(baseline) : baseline.files[p] # prevBaseline.files[p]}

\* C5: when a non-forced run over one folder follows another one over the
\* same folder and, in between, k files changed content and none was added
\* or removed, it reports k modified, 0 new, 0 deleted, the rest unchanged.
C5_ModifiedCounted ==
    SameFolderRuns =>
        /\ stats.modified_files = Cardinality(ChangedFiles)
        /\ stats.new_files = 0
        /\ stats.deleted_files = 0
        /\ stats.unchanged_files =
                Cardinality(BaseFiles(baseline) \ ChangedFiles)

C5_Witness ==
    /\ SameFolderRuns
    /\ Cardinality(ChangedFiles) = 1
    /\ stats.modified_files = 1
    /\ stats.unchanged_files = 1

\* C6: after a non-forced run over a folder, the registry holds no document
\* for a path of that folder whose file is gone from disk.
C6_RemovedFileForgotten ==
    (pc = "done" /\ ~run.force) =>
        \A p \in Paths :
            (disk[p] = Absent /\ Root(p) \in RunRoots /\ folderExists[Root(p)])
                => documents[p] = NoDoc

\* C7: the progress callback is called from the collector with completed
\* 1, 2, ..., N and total N, exactly N times for a batch of N files.
C7_ProgressSerial ==
    /\ \A i \in 1..Len(progress_calls) :
            /\ progress_calls[i].completed = i
            /\ progress_calls[i].total = Cardinality(Submitted)
            /\ progress_calls[i].thread = "collector"
    /\ Len(progress_calls) = Cardinality(collected)
    /\ pc \in {"building", "done"} =>
            Len(progress_calls) = Cardinality(Submitted)

C7_Witness ==
    /\ pc = "done"
    /\ Cardinality(Submitted) = 3
    /\ Len(progress_calls) = 3
    /\ progress_calls[3].completed = 3

\* C8: relationship building starts only when every task submitted for the
\* batch has finished.
C8_BuildAfterTasks ==
    (pc = "building") =>
        \A p \in Submitted : futures[p].state \in {"done", "failed"}

C8_Witness ==
    /\ pc = "building"
    /\ Cardinality(Submitted) >= 2

\* C9: after ingesting folder A, where doc1.md holds [[doc2]] and doc2.md
\* exists, the document of doc1 has a wikilink relationship to doc2 of
\* strength 1.0 and relationships_built is positive.
C9_WikilinkBuilt ==
    (/\ pc = "done"
     /\ run.folders = <<"A">>
     /\ disk["A/doc1.md"] = "long"
     /\ documents["A/doc1.md"] # NoDoc
     /\ documents["A/doc2.md"] # NoDoc) =>
        /\ \E i \in 1..Len(documents["A/doc1.md"].relationships) :
                LET r == documents["A/doc1.md"].relationships[i]
                IN  /\ r.target_doc = "A/doc2.md"
                    /\ r.type = "wikilink"
                    /\ r.score = 1
        /\ stats.relationships_built > 0

(***************************************************************************)
(* Properties of the conversation store                                    *)
(***************************************************************************)
AssistantMessages == {i \in 1..Len(messages) : messages[i].role = "assistant"}

C12_WithinBudget ==
    (returned.called /\ returned.max_tokens # NoLimit) =>
        TokensOf(messages, returned.result) <= returned.max_tokens

\* C13: get_messages(max_tokens) returns its messages in the order in which
\* they were appended to the conversation.
C13_ChronologicalOrder ==
    (returned.called /\ returned.max_tokens # NoLimit) =>
        \A i, j \in 1..Len(returned.result) :
            i < j => returned.result[i] < returned.result[j]

(***************************************************************************)
(* Properties of the RAG engine and the conversation manager               *)
(***************************************************************************)
\* C11: of two successive queries with the same conversation_id, the second
\* returns a turn_count strictly greater than the first.
C11_TurnCountGrows ==
    (rag_result.called /\ rag_result.conversation_id # NoId
        /\ rag_result.previous_turn # NoTurn) =>
        rag_result.result.turn_count > rag_result.previous_turn

\* C14: a get_conversation(id) that misses in memory after a successful
\* save_conversation(id) returns a conversation with the saved session_id,
\* messages and turn_count.
C14_SaveLoadRoundTrip ==
    (got.called /\ got.missed /\ got.saved # NoFile) =>
        /\ got.conv # NoConv
        /\ got.conv.session_id = got.saved.session_id
        /\ ConversationToDict(got.conv).messages = got.saved.messages
        /\ got.conv.turn_count = got.saved.turn_count

\* C15: a query in which a step raises returns a result with an error, no
\* local data and a message, and counts as one failed query and as no
\* successful one.
C15_ErrorsReturned ==
    (rag_result.called /\ rag_result.raised) =>
        /\ rag_result.result.error # "none"
        /\ ~rag_result.result.has_local_data
        /\ rag_result.result.content # <<>>
        /\ rag_stats.failed_queries =
               rag_result.stats_before.failed_queries + 1
        /\ rag_stats.successful_queries =
               rag_result.stats_before.successful_queries

(***************************************************************************)
(* Properties of the migration tools                                       *)
(***************************************************************************)
\* number of path components of a source folder
Depth(f) == IF f = "v/sub" THEN 2 ELSE 1
Listed(source_folders) == {source_folders[i] : i \in DOMAIN source_folders}

\* the listed folder that is the longest prefix of the document's path
OwningFolder(d, source_folders) ==
    LET holding == {f \in Listed(source_folders) : IsRelativeTo(d, f)}
    IN  IF holding = {} THEN NoSource
        ELSE CHOOSE f \in holding : \A g \in holding : Depth(g) <= Depth(f)

\* C16: after a verify_sources call a document is frozen if and only if its
\* owning source folder did not exist at that call.
C16_FrozenIffFolderMissing ==
    last_verify.called =>
        \A d \in DocIds :
            LET owner == OwningFolder(d, last_verify.folders)
            IN  owner # NoSource =>
                    ((kb_docs[d].status = "frozen") <=> ~last_verify.exists[owner])

\* C17: an import neither sets nor clears the frozen status: each imported
\* document is frozen exactly if it was frozen in the snapshot.
C17_FrozenOnlyByVerifier ==
    imported.done =>
        \A d \in DocIds :
            (imported.docs[d].status = "frozen")
                <=> (snapshot.documents_json[d].status = "frozen")

\* C18: verify_sources attributes each document to the listed folder that
\* is the longest prefix of its path, and counts it for that folder.
C18_LongestPrefix ==
    last_verify.called =>
        /\ \A d \in DocIds :
               last_verify.doc_source[d] = OwningFolder(d, last_verify.folders)
        /\ \A f \in Listed(last_verify.folders) :
               last_verify.document_count[f] =
                   Cardinality({d \in DocIds :
                                   OwningFolder(d, last_verify.folders) = f})

\* C19: the documents an import builds from a snapshot are equal to the
\* exported ones in doc_id, metadata, chunk contents, relationships and
\* status, and the target's vector directory equals the exported one.
C19_RoundTrip ==
    (imported.done /\ imported.target_before = NoDir) =>
        /\ \A d \in DocIds :
               /\ imported.docs[d].doc_id = snapshot.documents[d].doc_id
               /\ imported.docs[d].metadata = snapshot.documents[d].metadata
               /\ imported.docs[d].chunks = snapshot.documents[d].chunks
               /\ imported.docs[d].relationships =
                      snapshot.documents[d].relationships
               /\ imported.docs[d].status = snapshot.documents[d].status
        /\ imported.vector_dir = snapshot.exported_vector_db

(***************************************************************************)
(* Properties of the graph builder                                         *)
(***************************************************************************)
\* C20: after build_graph every node has at most 2 * max_edges_per_node
\* incident edges.
C20_DegreeBound ==
    graph.built =>
        \A d \in GraphDocs : graph.degree[d] <= 2 * graph.max_edges_per_node

(***************************************************************************)
(* Properties of the sub-graph helpers                                     *)
(***************************************************************************)
\* C21: after filter_by_tags and expand_from_node calls the source graph has
\* the edge list and the node degrees it had before the call, and each
\* degree is the number of source-graph edges incident to the node.
C21_PureViews ==
    (graph.built /\ view.called) =>
        /\ graph.edges = view.source_edges
        /\ graph.degree = view.source_degree
        /\ \A d \in GraphDocs : graph.degree[d] = Degree(graph.edges, d)

(***************************************************************************)
(* Properties of the chunker                                               *)
(***************************************************************************)
\* C22: every chunk chunk_text returns has a token_count of at most
\* 1.2 * chunk_size.
C22_ChunkSizeBound ==
    chunked.done =>
        \A c \in DOMAIN chunked.chunks :
            10 * chunked.chunks[c].token_count <= 12 * chunked.chunk_size

\* the number of markers in the chunks before chunk c
RECURSIVE MarkersBefore(_, _)
MarkersBefore(chunks, c) ==
    IF c <= 1 THEN 0
    ELSE MarkersBefore(chunks, c - 1) + Len(chunks[c - 1].markers)

\* C23: the code blocks are reinserted in their original order, each one
\* at the first marker still remaining across the chunk list: the p-th
\* marker of the chunk list holds the p-th code block.
C23_BlocksInOrder ==
    chunked.done =>
        \A c \in DOMAIN chunked.chunks :
            \A m \in DOMAIN chunked.chunks[c].markers :
                LET p == MarkersBefore(chunked.chunks, c) + m
                IN  chunked.chunks[c].code[m] =
                        (IF p <= CodeBlocks(sentences) THEN p ELSE 0)

(***************************************************************************)
(* Properties of successive runs of the ingestion orchestrator             *)
(***************************************************************************)
\* the files the run classified as new or modified
Reprocessed == PathsOfKind(md_changes, {"new", "modified"})

\* C24: when the task of a file failed in a non-forced run and the next
\* call is a non-forced run over the file's folder, with the file left
\* untouched, that run classifies the file as new or modified again.
C24_FailedRetried ==
    [][(runs' = runs + 1 /\ pc = "done" /\ ~run.force /\ ~run'.force) =>
          \A p \in Failed :
              (disk'[p] = disk[p] /\ Root(p) \in RunRoots') => p \in Reprocessed'
      ]_vars

\* the row of the vector index under id is a chunk of the document doc
RowOf(id, doc) ==
    \E k \in 1..Len(doc.chunks) :
        /\ doc.chunks[k].chunk_id = id
        /\ doc.chunks[k].content = vector_store[id].document

\* C25: after a run every row of the vector index is a chunk of some
\* document of the registry.
C25_NoOrphanRows ==
    (pc = "done") =>
        \A id \in ChunkIds :
            vector_store[id] # NoRow =>
                \E p \in Paths : documents[p] # NoDoc /\ RowOf(id, documents[p])

\* C26: after a forced run without file errors the registry holds a
\* document for exactly the files that exist under the given folders.
C26_ForcedRunMirrorsDisk ==
    (pc = "done" /\ run.force /\ Failed = {} /\ ~raised) =>
        \A p \in Paths :
            Root(p) \in RunRoots =>
                ((documents[p] # NoDoc) <=> (disk[p] # Absent))

(***************************************************************************)
(* Properties of a failed import                                           *)
(***************************************************************************)
\* C27: when import_all returns success = false the target's vector index
\* directory holds what it held before the call.
C27_FailedImportKeepsIndex ==
    (imported.returned /\ ~imported.success) =>
        imported.vector_dir = imported.target_before

(***************************************************************************)
(* Properties of the conversations of the RAG engine                       *)
(***************************************************************************)
\* C28: a query made without a conversation_id gets a generated id that no
\* earlier query of that kind got.
C28_DistinctGeneratedIds ==
    (rag_result.called /\ rag_result.conversation_id = NoId) =>
        rag_result.session_id \notin rag_result.generated_before

\* C29: when a query returns a result with error set for a conversation
\* that existed before the call, the conversation has the message log and
\* the turn_count it had before, in the manager and in its stored file.
C29_FailedQueryKeepsLog ==
    (/\ rag_result.called
     /\ rag_result.result.error # None
     /\ rag_result.conversation_id # NoId) =>
        LET id == rag_result.conversation_id
            before == rag_result.conversations_before[id]
            after == rag_result.conversations_after[id]
        IN  /\ before # NoConv =>
                  /\ after.messages = before.messages
                  /\ after.turn_count = before.turn_count
            /\ rag_result.files_after[id] = rag_result.files_before[id]

\* a query on a conversation with an earlier turn fails while the answer
\* is generated
C29_Witness ==
    /\ rag_result.called
    /\ rag_result.raised
    /\ rag_result.result.error = "timeout"
    /\ rag_result.conversation_id = "s1"
    /\ rag_result.conversations_before["s1"] # NoConv
    /\ rag_result.conversations_before["s1"].turn_count = 1
    /\ rag_result.conversations_after["s1"].turn_count = 1
    /\ rag_result.files_before["s1"] # NoFile

(***************************************************************************)
(* Properties of the retrieval step                                        *)
(***************************************************************************)
\* the place of row i in the result list, 0 if the row was dropped
RankOf(results, i) ==
    IF \E k \in DOMAIN results : results[k].chunk_id = i
    THEN CHOOSE k \in DOMAIN results : results[k].chunk_id = i
    ELSE 0

\* C30: of two rows the index returns for one query, the one with the
\* smaller distance never gets the lower score, is never ranked below the
\* other in the result list, and is never dropped by min_score while the
\* other is kept.
C30_CloserNeverBelow ==
    retrieved.called =>
        \A i, j \in DOMAIN rows :
            rows[i] < rows[j] =>
                LET near == RankOf(retrieved.results, i)
                    far == RankOf(retrieved.results, j)
                IN  /\ ~ScoreLess(retrieved.scores[i], retrieved.scores[j])
                    /\ far # 0 => near # 0
                    /\ (near # 0 /\ far # 0) => near < far

====
